---- MODULE Spec2Model ----
(***************************************************************************)
(* A model of the pdf-converter document pipeline (src/utils.py) and of    *)
(* the request handlers that call it (src/main.py).                        *)
(*                                                                         *)
(* Text is modelled as a sequence of one-character strings, so that        *)
(* splitting, stripping, integer parsing and formatting are computed and   *)
(* not assumed.  A PDF document is modelled by what PyPDF2 / pymupdf       *)
(* expose of it: whether it can be read, and its sequence of pages, each a *)
(* page content and a /Rotate value.                                       *)
(***************************************************************************)
EXTENDS Integers, Sequences, FiniteSets, TLC

VARIABLES
    user_sessions,  \* middleware.py: session_id -> session dict
    request,        \* the call in progress or last made, with its arguments
    response,       \* what that call returned or raised
    merger,         \* the PdfMerger of the merge_pdfs call in progress
    frame           \* position and locals of the call in progress

vars == <<user_sessions, request, response, merger, frame>>

(***************************************************************************)
(* Bounds of the model.                                                    *)
(***************************************************************************)
MaxPagesLen == 4     \* longest page-range string enumerated character by character
MaxTokens == 2       \* most tokens of an enumerated well-formed page-range string
MaxDocPages == 2     \* most pages of an enumerated document
MaxFilenames == 2    \* most file names in a merge or convert request
MaxRotations == 2    \* most (page, angle) pairs of a rotation request
MaxNameLen == 3      \* longest file name enumerated character by character
MaxArchives == 2     \* most archives handed to combine_archives
MaxUploads == 2       \* concurrent upload requests

(***************************************************************************)
(* Python values: results and exceptions.                                  *)
(***************************************************************************)
None == [kind |-> "None"]
NoFrame == [pc |-> "idle"]      \* no call of merge_pdfs in progress
Return(v) == [kind |-> "return", value |-> v]
ValueError == [kind |-> "raise", exc |-> "ValueError"]
HTTPException(status_code, detail) ==
    [kind |-> "raise", exc |-> "HTTPException",
     status_code |-> status_code, detail |-> detail]

Returned(r) == r.kind = "return"
Raised(r) == r.kind = "raise"

(***************************************************************************)
(* Python str and int operations used by the pipeline.                     *)
(***************************************************************************)
Digits == <<"0", "1", "2", "3", "4", "5", "6", "7", "8", "9">>
IsDigit(c) == \E d \in 1..10 : Digits[d] = c
DigitVal(c) == (CHOOSE d \in 1..10 : Digits[d] = c) - 1
IsSpace(c) == c = " "

\* c in s
str_contains(s, c) == \E i \in 1..Len(s) : s[i] = c

\* s.strip()
RECURSIVE str_lstrip(_)
str_lstrip(s) ==
    IF s # <<>> /\ IsSpace(Head(s)) THEN str_lstrip(Tail(s)) ELSE s
RECURSIVE str_rstrip(_)
str_rstrip(s) ==
    IF s # <<>> /\ IsSpace(s[Len(s)])
    THEN str_rstrip(SubSeq(s, 1, Len(s) - 1)) ELSE s
str_strip(s) == str_rstrip(str_lstrip(s))

\* s.split(sep) for a one-character sep: always at least one piece
RECURSIVE str_split_from(_, _, _, _)
str_split_from(s, sep, i, cur) ==
    IF i > Len(s) THEN <<cur>>
    ELSE IF s[i] = sep THEN <<cur>> \o str_split_from(s, sep, i + 1, <<>>)
    ELSE str_split_from(s, sep, i + 1, Append(cur, s[i]))
str_split(s, sep) == str_split_from(s, sep, 1, <<>>)

\* the value of a non-empty string of decimal digits
RECURSIVE digits_value(_, _)
digits_value(s, acc) ==
    IF s = <<>> THEN acc ELSE digits_value(Tail(s), acc * 10 + DigitVal(Head(s)))

\* int(s): surrounding whitespace is ignored, then an optional sign and one or
\* more decimal digits; anything else raises ValueError.  (Python also accepts
\* "_" between digits; no enumerated string holds one.)
int(s) ==
    LET t == str_strip(s)
        signed == t # <<>> /\ Head(t) \in {"+", "-"}
        body == IF signed THEN Tail(t) ELSE t
    IN  IF body = <<>> \/ \E i \in 1..Len(body) : ~IsDigit(body[i])
        THEN ValueError
        ELSE Return(IF signed /\ Head(t) = "-"
                    THEN 0 - digits_value(body, 0) ELSE digits_value(body, 0))

\* str(n)
RECURSIVE nat_str(_)
nat_str(n) ==
    IF n < 10 THEN <<Digits[n + 1]>> ELSE Append(nat_str(n \div 10), Digits[(n % 10) + 1])
str(n) == IF n < 0 THEN <<"-">> \o nat_str(0 - n) ELSE nat_str(n)

\* list(range(lo, hi))
range(lo, hi) == [i \in 1..(IF hi > lo THEN hi - lo ELSE 0) |-> lo + i - 1]

\* sorted(list(set(xs)))
SeqElems(xs) == {xs[i] : i \in 1..Len(xs)}
RECURSIVE sorted_set(_)
sorted_set(S) ==
    IF S = {} THEN <<>>
    ELSE LET m == CHOOSE x \in S : \A y \in S : x <= y
         IN  <<m>> \o sorted_set(S \ {m})

(***************************************************************************)
(* utils.parse_page_ranges                                                 *)
(***************************************************************************)
\* One iteration of the loop over pages.split(","): what the part adds to
\* page_ranges, or the ValueError it raises.
parse_part_skipping(raw) ==
    LET part == str_strip(raw)
        pieces == str_split(part, "-")
    IN  IF str_contains(part, "-")
        THEN IF Len(pieces) = 2 /\ Returned(int(pieces[1])) /\ Returned(int(pieces[2]))
             THEN Return(range(int(pieces[1]).value - 1, int(pieces[2]).value))
             ELSE Return(<<>>)
        ELSE IF Returned(int(part)) THEN Return(<<int(part).value - 1>>)
             ELSE Return(<<>>)

parse_part(raw) ==
    LET part == str_strip(raw)
        pieces == str_split(part, "-")
    IN  IF str_contains(part, "-")
        THEN \* start, end = map(int, part.split("-")): unpacking anything but
             \* two values, or a failing int(), raises ValueError
             IF Len(pieces) # 2 THEN ValueError
             ELSE IF Raised(int(pieces[1])) \/ Raised(int(pieces[2])) THEN ValueError
             ELSE Return(range(int(pieces[1]).value - 1, int(pieces[2]).value))
        ELSE IF Raised(int(part)) THEN ValueError
             ELSE Return(<<int(part).value - 1>>)

RECURSIVE parse_parts(_, _)
parse_parts(parts, page_ranges) ==
    IF parts = <<>> THEN Return(page_ranges)
    ELSE LET r == parse_part(Head(parts))
         IN  IF Raised(r) THEN r
             ELSE parse_parts(Tail(parts), page_ranges \o r.value)

parse_page_ranges_unsorted(pages) ==
    parse_parts(str_split(pages, ","), <<>>)

parse_page_ranges(pages) ==
    LET r == parse_parts(str_split(pages, ","), <<>>)
    IN  IF Raised(r) THEN r   \* except ValueError: log and re-raise
        ELSE Return(sorted_set(SeqElems(r.value)))

(***************************************************************************)
(* The inputs of parse_page_ranges.                                        *)
(***************************************************************************)
RECURSIVE StringsUpTo(_, _)
StringsUpTo(alphabet, n) ==
    IF n = 0 THEN {<<>>}
    ELSE LET shorter == StringsUpTo(alphabet, n - 1)
         IN  shorter \cup {Append(s, c) : s \in shorter, c \in alphabet}

PagesAlphabet == {"1", "2", "-", ",", " ", "a"}

ExamplePages ==
    { <<"1", "-", "3", ",", "5", ",", "7", "-", "9">>,
      <<"3", ",", "1", "-", "2", ",", "2">>,
      <<"a", "b", "c">>,
      <<"2", "-">>,
      <<"1", "0", "-", "1", "2", ",", "0", "3">>,
      <<"1", ",", "2", "-", ",", "3">>,
      <<"1", "-", "2", "-", "3">>,
      <<"1", ",", "1", "0">>,
      <<"1", "6">>,
      <<"0">> }

PageStrings == StringsUpTo(PagesAlphabet, MaxPagesLen) \cup ExamplePages

(***************************************************************************)
(* PDF documents, as PyPDF2 and pymupdf see them.                          *)
(***************************************************************************)
Pdf(pages) == [readable |-> TRUE, pages |-> pages]
\* bytes that are no PDF: PdfReader(...) and fitz.open(...) raise on them
CorruptPdf == [readable |-> FALSE, pages |-> <<>>]
Page(content, rotate) == [content |-> content, rotate |-> rotate]

\* a document of n unrotated pages with contents 1..n
PlainPdf(n) == Pdf([i \in 1..n |-> Page(i, 0)])

(***************************************************************************)
(* utils.split_pdf                                                         *)
(***************************************************************************)
InvalidPagesDetail == <<"Invalid page number format">>
    \* "Некорректный формат номеров страниц"
PageMissingDetail(n) == <<"Page ">> \o str(n) \o <<" does not exist in the document">>
    \* f"Страница {page_num + 1} не существует в документе"
SplitErrorDetail(e) == <<"Error while processing PDF: ", e>>
    \* f"Ошибка при обработке PDF: {str(e)}"

\* The loop over page_numbers: the pages handed to pdf_writer.add_page, or the
\* HTTPException raised at the first index outside 0 <= page_num < len(pages).
RECURSIVE select_pages_skipping(_, _)
select_pages_skipping(pages, page_numbers) ==
    IF page_numbers = <<>> THEN Return(<<>>)
    ELSE LET page_num == Head(page_numbers)
             rest == select_pages_skipping(pages, Tail(page_numbers))
         IN  IF 0 <= page_num /\ page_num < Len(pages)
             THEN Return(<<pages[page_num + 1]>> \o rest.value)
             ELSE rest

RECURSIVE select_pages_one_based(_, _)
select_pages_one_based(pages, page_numbers) ==
    IF page_numbers = <<>> THEN Return(<<>>)
    ELSE LET page_num == Head(page_numbers)
         IN  IF 0 <= page_num /\ page_num < Len(pages)
             THEN LET rest == select_pages_one_based(pages, Tail(page_numbers))
                      picked == IF page_num = 0 THEN pages[Len(pages)] ELSE pages[page_num]
                  IN  IF Raised(rest) THEN rest
                      ELSE Return(<<picked>> \o rest.value)
             ELSE HTTPException(400, PageMissingDetail(page_num + 1))

RECURSIVE add_pages(_, _)
add_pages(pages, page_numbers) ==
    IF page_numbers = <<>> THEN Return(<<>>)
    ELSE LET page_num == Head(page_numbers)
         IN  IF 0 <= page_num /\ page_num < Len(pages)
             THEN LET rest == add_pages(pages, Tail(page_numbers))
                  IN  IF Raised(rest) THEN rest
                      ELSE Return(<<pages[page_num + 1]>> \o rest.value)
             ELSE HTTPException(400, PageMissingDetail(page_num + 1))

split_pdf(file_content, pages) ==
    LET parsed == parse_page_ranges(pages)
    IN  IF Raised(parsed)
        THEN HTTPException(400, InvalidPagesDetail)          \* except ValueError
        ELSE IF ~file_content.readable
        THEN HTTPException(500, SplitErrorDetail("PdfReadError"))  \* except Exception
        ELSE LET selected == add_pages(file_content.pages, parsed.value)
             IN  IF Raised(selected) THEN selected           \* except HTTPException: raise
                 ELSE Return(Pdf(selected.value))

(***************************************************************************)
(* The inputs of split_pdf.                                                *)
(***************************************************************************)
SplitDocs ==
    {PlainPdf(n) : n \in 0..MaxDocPages} \cup {PlainPdf(10), CorruptPdf}

(***************************************************************************)
(* Specification of the page-range parser and the splitter: a call of      *)
(* either function on any of the enumerated arguments.                     *)
(***************************************************************************)
ParseRequests == {[op |-> "parse_page_ranges", pages |-> p] : p \in PageStrings}
SplitRequests ==
    {[op |-> "split_pdf", file_content |-> d, pages |-> p] :
        d \in SplitDocs, p \in PageStrings}

InitSplit ==
    /\ user_sessions = <<>>
    /\ request \in ParseRequests \cup SplitRequests
    /\ response = None
    /\ merger = None
    /\ frame = NoFrame

CallParsePageRanges ==
    /\ request.op = "parse_page_ranges"
    /\ response = None
    /\ response' = parse_page_ranges(request.pages)
    /\ UNCHANGED <<user_sessions, request, merger, frame>>

CallSplitPdf ==
    /\ request.op = "split_pdf"
    /\ response = None
    /\ response' = split_pdf(request.file_content, request.pages)
    /\ UNCHANGED <<user_sessions, request, merger, frame>>

NextSplit == CallParsePageRanges \/ CallSplitPdf

SpecSplit == InitSplit /\ [][NextSplit]_vars

(***************************************************************************)
(* Documents and file names of a session.                                  *)
(***************************************************************************)
PageValues == {Page(1, 0), Page(2, 90)}
RECURSIVE SeqsUpTo(_, _)
SeqsUpTo(S, n) ==
    IF n = 0 THEN {<<>>}
    ELSE LET shorter == SeqsUpTo(S, n - 1)
         IN  shorter \cup {Append(l, x) : l \in shorter, x \in S}
Docs == {Pdf(pages) : pages \in SeqsUpTo(PageValues, MaxDocPages)} \cup {CorruptPdf}

PdfName(stem) == stem \o <<".", "p", "d", "f">>
StoredNames == {PdfName(<<"a">>), PdfName(<<"b">>)}
AbsentNames == {PdfName(<<"c">>)}      \* never in any enumerated file table

\* session["files"][filename], as upload_pdf builds it (main.py:70-74)
FileData(filename, doc) ==
    [filename |-> filename, file_content |-> doc, file_previews |-> <<>>]
FileTables ==
    UNION {{[f \in present |-> FileData(f, content[f])] : content \in [present -> Docs]} :
           present \in SUBSET StoredNames}

(***************************************************************************)
(* utils.merge_pdfs, statement by statement.                               *)
(***************************************************************************)
\* sep.join(names)
RECURSIVE str_join(_, _)
str_join(sep, names) ==
    IF names = <<>> THEN <<>>
    ELSE IF Len(names) = 1 THEN names[1]
    ELSE names[1] \o sep \o str_join(sep, Tail(names))

MissingFilesDetail(missing) == <<"Files not found: ">> \o str_join(<<",", " ">>, missing)
    \* f"Файлы не найдены: {', '.join(missing_files)}"
MergeErrorDetail(e) == <<"Error while merging PDF: ", e>>
    \* f"Ошибка при объединении PDF: {str(e)}"

\* [f for f in filenames if f not in session_files]
missing_files_first_only(filenames, session_files) ==
    LET absent == SelectSeq(filenames, LAMBDA f : f \notin DOMAIN session_files)
    IN  IF absent = <<>> THEN <<>> ELSE <<absent[1]>>

missing_files(filenames, session_files) ==
    SelectSeq(filenames, LAMBDA f : f \notin DOMAIN session_files)

\* PdfMerger(), PdfMerger.append(fileobj), PdfMerger.close()
NewMerger == [pages |-> <<>>, closed |-> 0]
merger_insert_first(m, doc) == [m EXCEPT !.pages = doc.pages \o @]
merger_append(m, doc) == [m EXCEPT !.pages = @ \o doc.pages]
merger_close(m) == [m EXCEPT !.pages = <<>>, !.closed = @ + 1]

MergeRequests ==
    {[op |-> "merge_pdfs", caller |-> "direct", filenames |-> fs, session_files |-> t] :
        fs \in SeqsUpTo(StoredNames \cup AbsentNames, MaxFilenames), t \in FileTables}

InitMerge ==
    /\ user_sessions = <<>>
    /\ request \in MergeRequests
    /\ response = None
    /\ merger = None
    /\ frame = [pc |-> "merge_pdfs"]

\* merger = PdfMerger(); output = BytesIO()
MergeEnter ==
    /\ request.op = "merge_pdfs"
    /\ frame.pc = "merge_pdfs"
    /\ merger' = NewMerger
    /\ frame' = [pc |-> "check", output |-> None, pending |-> None, i |-> 0]
    /\ UNCHANGED <<user_sessions, request, response>>

\* the check for missing files; its HTTPException is re-raised by
\* "except HTTPException: raise" and reaches the caller after the finally block
MergeCheck ==
    /\ frame.pc = "check"
    /\ LET missing == missing_files(request.filenames, request.session_files)
       IN  frame' = IF missing # <<>>
                    THEN [frame EXCEPT !.pc = "finally",
                              !.pending = HTTPException(404, MissingFilesDetail(missing))]
                    ELSE [frame EXCEPT !.pc = "append", !.i = 1]
    /\ UNCHANGED <<user_sessions, request, response, merger>>

\* one iteration of "for filename in filenames": an unreadable document makes
\* merger.append raise, which "except Exception" turns into the 500 HTTPException
MergeAppend ==
    /\ frame.pc = "append"
    /\ frame.i <= Len(request.filenames)
    /\ LET file_data == request.session_files[request.filenames[frame.i]]
       IN  IF file_data.file_content.readable
           THEN /\ merger' = merger_append(merger, file_data.file_content)
                /\ frame' = [frame EXCEPT !.i = @ + 1]
           ELSE /\ merger' = merger
                /\ frame' = [frame EXCEPT !.pc = "finally",
                                 !.pending = HTTPException(500, MergeErrorDetail("PdfReadError"))]
    /\ UNCHANGED <<user_sessions, request, response>>

\* merger.write(output); output.seek(0); return output
MergeWrite ==
    /\ frame.pc = "append"
    /\ frame.i > Len(request.filenames)
    /\ frame' = [frame EXCEPT !.pc = "finally", !.output = Pdf(merger.pages),
                     !.pending = Return(Pdf(merger.pages))]
    /\ UNCHANGED <<user_sessions, request, response, merger>>

\* finally: merger.close(); then the pending return or raise reaches the caller
MergeFinallyOnReturnOnly ==
    /\ frame.pc = "finally"
    /\ merger' = IF Returned(frame.pending) THEN merger_close(merger) ELSE merger
    /\ response' = frame.pending
    /\ frame' = [frame EXCEPT !.pc = "done"]
    /\ UNCHANGED <<user_sessions, request>>

MergeFinally ==
    /\ frame.pc = "finally"
    /\ merger' = merger_close(merger)
    /\ response' = frame.pending
    /\ frame' = [frame EXCEPT !.pc = "done"]
    /\ UNCHANGED <<user_sessions, request>>

NextMerge == MergeEnter \/ MergeCheck \/ MergeAppend \/ MergeWrite \/ MergeFinally

SpecMerge == InitMerge /\ [][NextMerge]_vars

(***************************************************************************)
(* utils.rotate_pages_in_pdf                                               *)
(***************************************************************************)
RotateErrorDetail(e) == <<"Error while rotating pages: ", e>>
    \* f"Ошибка при повороте страниц: {str(e)}"

\* rotations_dict = {page_num: angle for page_num, angle in rotations}:
\* a later pair replaces an earlier one with the same page number
RECURSIVE rotations_dict(_)
rotations_dict(rotations) ==
    IF rotations = <<>> THEN <<>>
    ELSE LET earlier == rotations_dict(SubSeq(rotations, 1, Len(rotations) - 1))
             last == rotations[Len(rotations)]
         IN  [n \in DOMAIN earlier \cup {last[1]} |->
                 IF n = last[1] THEN last[2] ELSE earlier[n]]

\* The angle applied to the page at zero-based position i (page_num = i + 1),
\* 0 when the page is not rotated.
angle_for_zero_based(i, dict) ==
    IF i \in DOMAIN dict THEN dict[i] ELSE 0

angle_for(i, dict) ==
    LET page_num == i + 1
    IN  IF page_num \in DOMAIN dict THEN dict[page_num] ELSE 0

\* PageObject.rotate(angle): the angle is added to /Rotate
page_rotate(page, angle) == [page EXCEPT !.rotate = @ + angle]

rotate_pages_in_pdf(file_content, rotations) ==
    LET dict == rotations_dict(rotations)
        pages == file_content.pages
        \* PageObject.rotate raises ValueError unless angle % 90 = 0
        refused == \E i \in 1..Len(pages) : angle_for(i - 1, dict) % 90 # 0
    IN  IF ~file_content.readable
        THEN HTTPException(500, RotateErrorDetail("PdfReadError"))
        ELSE IF refused
        THEN HTTPException(500, RotateErrorDetail("ValueError"))
        ELSE Return(Pdf([i \in 1..Len(pages) |->
                 IF angle_for(i - 1, dict) # 0
                 THEN page_rotate(pages[i], angle_for(i - 1, dict))
                 ELSE pages[i]]))

(***************************************************************************)
(* Specification of the rotator: a call on any enumerated arguments.       *)
(***************************************************************************)
Angles == {0, 90, 180, 270}
RotatedPageNumbers == {1, 2, 3, 99}
ExampleRotations == { << <<1, 45>> >>, << <<2, 90>>, <<99, 90>> >> }
RotationLists ==
    SeqsUpTo(RotatedPageNumbers \X Angles, MaxRotations) \cup ExampleRotations
RotateRequests ==
    {[op |-> "rotate_pages_in_pdf", file_content |-> d, rotations |-> r] :
        d \in Docs \cup {PlainPdf(3)}, r \in RotationLists}

InitRotate ==
    /\ user_sessions = <<>>
    /\ request \in RotateRequests
    /\ response = None
    /\ merger = None
    /\ frame = NoFrame

CallRotatePagesInPdf ==
    /\ request.op = "rotate_pages_in_pdf"
    /\ response = None
    /\ response' = rotate_pages_in_pdf(request.file_content, request.rotations)
    /\ UNCHANGED <<user_sessions, request, merger, frame>>

NextRotate == CallRotatePagesInPdf

SpecRotate == InitRotate /\ [][NextRotate]_vars

(***************************************************************************)
(* utils.convert_pdf_to_jpeg, pack_images_into_zip, convert_and_pack       *)
(***************************************************************************)
ConvertErrorDetail(e) == <<"Error converting PDF to JPEG: ", e>>

\* page.get_pixmap(dpi=dpi) / Image.frombytes: the rendering of a page
Render(page, dpi) == [page |-> page, dpi |-> dpi]
\* img.save(img_bytes, format="JPEG", quality=quality)
Jpeg(img, quality) == [image |-> img, quality |-> quality]

convert_pdf_to_jpeg(file_content, dpi) ==
    IF ~file_content.readable
    THEN HTTPException(500, ConvertErrorDetail("FileDataError"))
    ELSE Return([i \in 1..Len(file_content.pages) |-> Render(file_content.pages[i], dpi)])

\* f"{prefix}_page_{idx}.jpg"
EntryName(prefix, idx) ==
    prefix \o <<"_", "p", "a", "g", "e", "_">> \o str(idx) \o <<".", "j", "p", "g">>

\* an archive is the sequence of its entries, in the order zf.writestr added them
pack_images_into_zip(images, prefix) ==
    Return([idx \in 1..Len(images) |->
               [name |-> EntryName(prefix, idx), data |-> Jpeg(images[idx], 85)]])

\* filename.rsplit(".", 1)[0] and, for comparison, filename.split(".")[0]
DotPositions(filename) == {k \in 1..Len(filename) : filename[k] = "."}
prefix_before_first_dot(filename) ==
    IF DotPositions(filename) = {} THEN filename
    ELSE SubSeq(filename, 1,
                (CHOOSE k \in DotPositions(filename) :
                    \A j \in DotPositions(filename) : k <= j) - 1)

prefix_of(filename) ==
    IF DotPositions(filename) = {} THEN filename
    ELSE SubSeq(filename, 1,
                (CHOOSE k \in DotPositions(filename) :
                    \A j \in DotPositions(filename) : j <= k) - 1)

convert_and_pack(filename, file_content, dpi) ==
    LET images == convert_pdf_to_jpeg(file_content, dpi)
    IN  IF Raised(images) THEN images             \* except HTTPException: raise
        ELSE pack_images_into_zip(images.value, prefix_of(filename))

(***************************************************************************)
(* Specification of the exporter: a call on any enumerated arguments.      *)
(***************************************************************************)
NameAlphabet == {"a", "."}
ExampleNames ==
    { PdfName(<<"a">>), PdfName(<<"a", ".", "b">>), PdfName(<<"d", "o", "c">>) }
ConvertNames == StringsUpTo(NameAlphabet, MaxNameLen) \cup ExampleNames
ConvertRequests ==
    {[op |-> "convert_and_pack", filename |-> f, file_content |-> d, dpi |-> dpi] :
        f \in ConvertNames, d \in Docs \cup {PlainPdf(11)}, dpi \in {72, 300}}

InitConvert ==
    /\ user_sessions = <<>>
    /\ request \in ConvertRequests
    /\ response = None
    /\ merger = None
    /\ frame = NoFrame

CallConvertAndPack ==
    /\ request.op = "convert_and_pack"
    /\ response = None
    /\ response' = convert_and_pack(request.filename, request.file_content, request.dpi)
    /\ UNCHANGED <<user_sessions, request, merger, frame>>

NextConvert == CallConvertAndPack

SpecConvert == InitConvert /\ [][NextConvert]_vars

(***************************************************************************)
(* utils.combine_archives and utils.get_files_from_session                 *)
(***************************************************************************)
\* src_zip.read(name): the data of the last entry of that name
zip_read(archive, name) ==
    archive[CHOOSE k \in 1..Len(archive) :
                /\ archive[k].name = name
                /\ \A j \in 1..Len(archive) : archive[j].name = name => j <= k].data

\* f"file_{idx}/{name}"
CombinedNameWithoutIndex(idx, name) == <<"f", "i", "l", "e", "/">> \o name
CombinedName(idx, name) == <<"f", "i", "l", "e", "_">> \o str(idx) \o <<"/">> \o name

RECURSIVE combine_from(_, _)
combine_from(individual_archives, idx) ==
    IF idx > Len(individual_archives) THEN <<>>
    ELSE LET src_zip == individual_archives[idx]
         IN  [k \in 1..Len(src_zip) |->
                 [name |-> CombinedName(idx, src_zip[k].name),
                  data |-> zip_read(src_zip, src_zip[k].name)]]
             \o combine_from(individual_archives, idx + 1)
combine_archives(individual_archives) == Return(combine_from(individual_archives, 1))

(***************************************************************************)
(* Specification of the combiner: a call on any enumerated list of the     *)
(* archives that pack_images_into_zip produces.                            *)
(***************************************************************************)
ArchivePrefixes == { <<"d", "o", "c">>, <<"1", "/", "a">> }
PackedArchives ==
    {pack_images_into_zip(convert_pdf_to_jpeg(d, 300).value, prefix).value :
        d \in Docs \ {CorruptPdf}, prefix \in ArchivePrefixes}
\* eleven archives, so that two-digit ordinals occur
ExampleArchiveLists ==
    { [i \in 1..11 |->
          pack_images_into_zip(convert_pdf_to_jpeg(PlainPdf(1), 300).value,
                               <<"d", "o", "c">>).value] }
CombineRequests ==
    {[op |-> "combine_archives", individual_archives |-> l] :
        l \in SeqsUpTo(PackedArchives, MaxArchives) \cup ExampleArchiveLists}

InitCombine ==
    /\ user_sessions = <<>>
    /\ request \in CombineRequests
    /\ response = None
    /\ merger = None
    /\ frame = NoFrame

CallCombineArchives ==
    /\ request.op = "combine_archives"
    /\ response = None
    /\ response' = combine_archives(request.individual_archives)
    /\ UNCHANGED <<user_sessions, request, merger, frame>>

NextCombine == CallCombineArchives

SpecCombine == InitCombine /\ [][NextCombine]_vars

FileNotInSessionDetail(filename) ==
    <<"File '">> \o filename \o <<"' not found in session">>
    \* f"Файл '{filename}' не найден в сессии"

\* The result dict as the sequence of its (filename, content) items in
\* insertion order: a file name listed again keeps its first position.
\* (No stored file has empty content, so the 400 branch is never taken.)
RECURSIVE get_files_loop(_, _, _)
get_files_loop(session_files, filenames, result) ==
    IF filenames = <<>> THEN Return(result)
    ELSE LET filename == Head(filenames)
         IN  IF filename \notin DOMAIN session_files
             THEN HTTPException(404, FileNotInSessionDetail(filename))
             ELSE get_files_loop(session_files, Tail(filenames),
                      IF \E k \in 1..Len(result) : result[k][1] = filename
                      THEN result
                      ELSE Append(result, <<filename, session_files[filename].file_content>>))
get_files_from_session(session, filenames) ==
    get_files_loop(IF "files" \in DOMAIN session THEN session["files"] ELSE <<>>,
                   filenames, <<>>)

(***************************************************************************)
(* middleware.SessionMiddleware and the handlers of main.py                *)
(***************************************************************************)
NoCookie == "no cookie"
ServerIds == {"uuid-1"}          \* values uuid.uuid4() returns
ClientIds == {"client-made"}     \* cookie values no server issued
Cookies == {NoCookie} \cup ServerIds \cup ClientIds

EmptySession == <<>>             \* the dict {}
SessionFiles(session) == IF "files" \in DOMAIN session THEN session["files"] ELSE <<>>

\* dispatch, up to call_next: the session id the request runs under and the
\* session store after it
session_id_of(cookie) ==
    IF cookie \in DOMAIN user_sessions THEN cookie
    ELSE IF cookie = NoCookie
    THEN CHOOSE new_session_id \in ServerIds : new_session_id \notin DOMAIN user_sessions
    ELSE cookie
dispatched(cookie) ==
    IF cookie \in DOMAIN user_sessions THEN user_sessions
    ELSE [sid \in DOMAIN user_sessions \cup {session_id_of(cookie)} |->
             IF sid \in DOMAIN user_sessions THEN user_sessions[sid] ELSE EmptySession]
\* uuid4 values are bounded by ServerIds
CanDispatch(cookie) ==
    cookie = NoCookie => \E sid \in ServerIds : sid \notin DOMAIN user_sessions

InternalErrorDetail == <<"Internal server error">>
OnlyPdfDetail == <<"Only PDF files are allowed.">>
    \* "Только файлы формата PDF разрешены."
FileNotFoundDetail == <<"Requested file not found in session">>
    \* "Запрошенный файл не найден в сессии"
BadJsonDetail == <<"Invalid JSON format">>          \* "Неправильный формат JSON"
NoRotationsDetail == <<"Pages and rotation angles must be chosen.">>
    \* "Необходимо выбрать страницы и установить углы поворота."

\* The HTTP response the client receives for what the handler returned or
\* raised, with the cookie the middleware sets when the request had none.
HttpResponse(result, cookie, session_id) ==
    [kind |-> "response",
     status_code |-> IF Raised(result) THEN result.status_code ELSE 200,
     detail |-> IF Raised(result) THEN result.detail ELSE None,
     body |-> IF Raised(result) THEN None ELSE result.value,
     set_cookie |-> IF cookie = NoCookie THEN session_id ELSE None]

\* filename.lower().endswith(".pdf")
Upper == <<"A", "B", "C", "D", "E", "F", "G", "H", "I", "J", "K", "L", "M",
           "N", "O", "P", "Q", "R", "S", "T", "U", "V", "W", "X", "Y", "Z">>
Lower == <<"a", "b", "c", "d", "e", "f", "g", "h", "i", "j", "k", "l", "m",
           "n", "o", "p", "q", "r", "s", "t", "u", "v", "w", "x", "y", "z">>
chr_lower(c) ==
    IF \E k \in 1..26 : Upper[k] = c THEN Lower[CHOOSE k \in 1..26 : Upper[k] = c] ELSE c
str_lower(s) == [k \in 1..Len(s) |-> chr_lower(s[k])]
str_endswith(s, suffix) ==
    Len(s) >= Len(suffix) /\ SubSeq(s, Len(s) - Len(suffix) + 1, Len(s)) = suffix

\* utils.convert_pdf_to_images(pdf_bytes, quality=50)
convert_pdf_to_images(pdf_bytes) ==
    IF ~pdf_bytes.readable
    THEN HTTPException(500, <<"Error converting PDF to images: ", "FileDataError">>)
    ELSE Return([i \in 1..Len(pdf_bytes.pages) |->
                    Jpeg(Render(pdf_bytes.pages[i], "default"), 50)])

\* upload_pdf: the handler's result and the session after it
upload_result(filename, content) ==
    IF ~str_endswith(str_lower(filename), <<".", "p", "d", "f">>)
    THEN HTTPException(400, OnlyPdfDetail)
    ELSE IF Raised(convert_pdf_to_images(content))
    THEN HTTPException(500, InternalErrorDetail)      \* except Exception
    ELSE Return("index.html")
\* upload_pdf storing a fresh table instead of session.get("files", {})
upload_session_fresh_table(session, filename, content) ==
    IF Raised(upload_result(filename, content)) THEN session
    ELSE [key \in {"files"} |->
             [f \in {filename} |->
                 [filename |-> filename, file_content |-> content,
                  file_previews |-> convert_pdf_to_images(content).value]]]
\* upload_pdf keeping an entry the table already has (files.setdefault)
upload_session_keeping_first(session, filename, content) ==
    IF Raised(upload_result(filename, content)) THEN session
    ELSE LET new_file == [filename |-> filename, file_content |-> content,
                          file_previews |-> convert_pdf_to_images(content).value]
             files == SessionFiles(session)
         IN  [key \in {"files"} |->
                 [f \in DOMAIN files \cup {filename} |->
                     IF f \in DOMAIN files THEN files[f] ELSE new_file]]
upload_session(session, filename, content) ==
    IF Raised(upload_result(filename, content)) THEN session
    ELSE LET new_file == [filename |-> filename, file_content |-> content,
                          file_previews |-> convert_pdf_to_images(content).value]
             files == SessionFiles(session)
         IN  [key \in {"files"} |->
                 [f \in DOMAIN files \cup {filename} |->
                     IF f = filename THEN new_file ELSE files[f]]]

\* split_pdf_page.  (Its "if not file_content" branch needs a stored file of
\* zero bytes, which upload_pdf never stores: their preview conversion fails.)
split_pdf_page(session, original_filename, pages) ==
    LET files == SessionFiles(session)
    IN  IF original_filename \notin DOMAIN files
        THEN HTTPException(400, FileNotFoundDetail)
        ELSE split_pdf(files[original_filename].file_content, pages)
             \* except HTTPException as he: raise he

\* convert_pdf_to_jpg
RECURSIVE convert_each(_, _)
convert_each(requested_files, dpi) ==
    IF requested_files = <<>> THEN Return(<<>>)
    ELSE LET individual_archive ==
                 convert_and_pack(Head(requested_files)[1], Head(requested_files)[2], dpi)
             rest == convert_each(Tail(requested_files), dpi)
         IN  IF Raised(individual_archive) THEN individual_archive
             ELSE IF Raised(rest) THEN rest
             ELSE Return(<<individual_archive.value>> \o rest.value)
convert_pdf_to_jpg(session, filenames, dpi) ==
    LET requested_files == get_files_from_session(session, filenames)
        individual_archives ==
            IF Raised(requested_files) THEN requested_files
            ELSE convert_each(requested_files.value, dpi)
    IN  IF Raised(individual_archives)
        THEN HTTPException(500, InternalErrorDetail)   \* except Exception
        ELSE combine_archives(individual_archives.value)

\* rotate_pdf_pages; pages_and_angles is the posted text: "" for an empty
\* field, "not json" for text json.loads rejects, and otherwise the decoded
\* object as a sequence of (key text, angle) members
rotation_items(pages_and_angles_dict) ==
    SelectSeq(pages_and_angles_dict, LAMBDA item : item[2] # 0)
rotate_pdf_pages(session, original_filename, pages_and_angles) ==
    LET files == SessionFiles(session)
        items == rotation_items(pages_and_angles)
    IN  IF pages_and_angles = ""
        THEN HTTPException(400, NoRotationsDetail)
        ELSE IF pages_and_angles = "not json"
        THEN HTTPException(400, BadJsonDetail)
        ELSE IF original_filename \notin DOMAIN files
        THEN HTTPException(400, FileNotFoundDetail)
        ELSE IF \E k \in 1..Len(items) : Raised(int(items[k][1]))
        THEN HTTPException(500, <<"invalid literal for int() with base 10">>)
        ELSE LET rotated_pdf ==
                     rotate_pages_in_pdf(files[original_filename].file_content,
                         [k \in 1..Len(items) |-> <<int(items[k][1]).value, items[k][2]>>])
             IN  IF Raised(rotated_pdf)
                 THEN HTTPException(500, rotated_pdf.detail)   \* detail=str(e)
                 ELSE rotated_pdf

(***************************************************************************)
(* The application: one request at a time, from any client.                *)
(***************************************************************************)
NoRequest == [op |-> "none"]
Idle == request = NoRequest

UploadNames == {PdfName(<<"a">>), <<"b", ".", "P", "D", "F">>, <<"c", ".", "t", "x", "t">>}
UploadDocs == {PlainPdf(1), Pdf(<<Page(1, 0), Page(2, 90)>>), CorruptPdf}
RequestedNames == {PdfName(<<"a">>), <<"b", ".", "P", "D", "F">>, PdfName(<<"c">>)}
RequestedPages ==
    { <<"1">>, <<"2">>, <<"1", "-", "2">>, <<"2", ",", "1">>, <<"1", "-", "3">>,
      <<"0">>, <<"2", "-">>, <<"a", "b", "c">> }
RequestedRotations ==
    { "", "not json", <<>>, << <<<<"2">>, 90>> >>, << <<<<"1">>, 0>>, <<<<" ", "2">>, 270>> >>,
      << <<<<"9", "9">>, 180>> >>, << <<<<"a">>, 90>> >> }

Init ==
    /\ user_sessions = <<>>
    /\ request = NoRequest
    /\ response = None
    /\ merger = None
    /\ frame = NoFrame

UploadPdf ==
    \E cookie \in Cookies, filename \in UploadNames, content \in UploadDocs :
        /\ Idle /\ CanDispatch(cookie)
        /\ request' = [op |-> "/upload", cookie |-> cookie, filename |-> filename,
                       content |-> content]
        /\ user_sessions' =
               [dispatched(cookie) EXCEPT ![session_id_of(cookie)] =
                   upload_session(@, filename, content)]
        /\ response' = HttpResponse(upload_result(filename, content), cookie,
                                    session_id_of(cookie))
        /\ UNCHANGED <<merger, frame>>

SplitPdfPage ==
    \E cookie \in Cookies, original_filename \in RequestedNames, pages \in RequestedPages :
        /\ Idle /\ CanDispatch(cookie)
        /\ request' = [op |-> "/split-pdf", cookie |-> cookie,
                       original_filename |-> original_filename, pages |-> pages]
        /\ user_sessions' = dispatched(cookie)
        /\ response' = HttpResponse(
               split_pdf_page(dispatched(cookie)[session_id_of(cookie)],
                              original_filename, pages), cookie, session_id_of(cookie))
        /\ UNCHANGED <<merger, frame>>

\* merge_pdfs_page up to its call of merge_pdfs, which then runs step by step
MergePdfsPage ==
    \E cookie \in Cookies, filenames \in SeqsUpTo(RequestedNames, MaxFilenames) :
        /\ Idle /\ CanDispatch(cookie)
        /\ request' = [op |-> "merge_pdfs", caller |-> "/merge-pdfs", cookie |-> cookie,
                       session_id |-> session_id_of(cookie),
                       filenames |-> filenames,
                       session_files |->
                           SessionFiles(dispatched(cookie)[session_id_of(cookie)])]
        /\ user_sessions' = dispatched(cookie)
        /\ frame' = [pc |-> "merge_pdfs"]
        /\ UNCHANGED <<response, merger>>

\* merge_pdfs_page after merge_pdfs: StreamingResponse, or "except Exception"
merge_pdfs_page_result(merged_bytes) ==
    IF Raised(merged_bytes) THEN HTTPException(500, InternalErrorDetail) ELSE merged_bytes
MergePdfsPageReturn ==
    /\ request.op = "merge_pdfs" /\ request.caller = "/merge-pdfs"
    /\ frame.pc = "done"
    /\ response' = HttpResponse(merge_pdfs_page_result(response), request.cookie,
                                request.session_id)
    /\ frame' = [frame EXCEPT !.pc = "responded"]
    /\ UNCHANGED <<user_sessions, request, merger>>

ConvertPdfToJpg ==
    \E cookie \in Cookies, filenames \in SeqsUpTo(RequestedNames, MaxFilenames) :
        /\ Idle /\ CanDispatch(cookie)
        /\ request' = [op |-> "/convert-pdf-to-jpg", cookie |-> cookie,
                       filenames |-> filenames, dpi |-> 300]
        /\ user_sessions' = dispatched(cookie)
        /\ response' = HttpResponse(
               convert_pdf_to_jpg(dispatched(cookie)[session_id_of(cookie)],
                                  filenames, 300), cookie, session_id_of(cookie))
        /\ UNCHANGED <<merger, frame>>

RotatePdfPages ==
    \E cookie \in Cookies, original_filename \in RequestedNames,
       pages_and_angles \in RequestedRotations :
        /\ Idle /\ CanDispatch(cookie)
        /\ request' = [op |-> "/rotate-pdf", cookie |-> cookie,
                       original_filename |-> original_filename,
                       pages_and_angles |-> pages_and_angles]
        /\ user_sessions' = dispatched(cookie)
        /\ response' = HttpResponse(
               rotate_pdf_pages(dispatched(cookie)[session_id_of(cookie)],
                                original_filename, pages_and_angles), cookie,
               session_id_of(cookie))
        /\ UNCHANGED <<merger, frame>>

\* the GET pages (home, split_page, merge_page, convert_page, rotate_page):
\* each renders its template from request.state.session and writes nothing
PageTemplates ==
    [path \in {"/", "/split", "/merge", "/convert", "/rotate"} |->
        CASE path = "/" -> "index.html"
          [] path = "/split" -> "split.html"
          [] path = "/merge" -> "merge.html"
          [] path = "/convert" -> "convert.html"
          [] path = "/rotate" -> "rotate.html"]
GetPage ==
    \E cookie \in Cookies, path \in DOMAIN PageTemplates :
        /\ Idle /\ CanDispatch(cookie)
        /\ request' = [op |-> path, cookie |-> cookie]
        /\ user_sessions' = dispatched(cookie)
        /\ response' = HttpResponse(Return(PageTemplates[path]), cookie,
                                    session_id_of(cookie))
        /\ UNCHANGED <<merger, frame>>

\* the response has gone to the client; the next request can be handled
SendResponse ==
    /\ ~Idle
    /\ response # None /\ response.kind = "response"
    /\ request' = NoRequest
    /\ response' = None
    /\ merger' = None
    /\ frame' = NoFrame
    /\ UNCHANGED user_sessions

Next ==
    \/ GetPage \/ UploadPdf \/ SplitPdfPage \/ ConvertPdfToJpg \/ RotatePdfPages
    \/ MergePdfsPage \/ MergeEnter \/ MergeCheck \/ MergeAppend \/ MergeWrite
    \/ MergeFinally \/ MergePdfsPageReturn
    \/ SendResponse

Spec == Init /\ [][Next]_vars

(***************************************************************************)
(* Concurrent POST /upload requests.  The handlers are coroutines of one   *)
(* event loop: a request runs without interruption from one await to the   *)
(* next.  dispatch runs up to "await call_next(request)"; upload_pdf runs  *)
(* up to "await file.read()", and from there to its return or raise.       *)
(* request, frame and response hold one value per request here.            *)
(* request.state.session is a reference to the dict user_sessions holds    *)
(* under the request's session id; no code replaces or removes that dict,  *)
(* so the session id stands for the reference.                             *)
(***************************************************************************)
Uploaders == 1..MaxUploads
UploadCookies == ServerIds \cup ClientIds
UploadRequests ==
    [op : {"/upload"}, cookie : UploadCookies, filename : UploadNames,
     content : UploadDocs]

\* the session of ServerIds was issued to a client by an earlier request
InitUploads ==
    /\ user_sessions = [sid \in ServerIds |-> EmptySession]
    /\ request \in [Uploaders -> UploadRequests]
    /\ response = [r \in Uploaders |-> None]
    /\ merger = None
    /\ frame = [r \in Uploaders |-> [pc |-> "new"]]

\* SessionMiddleware.dispatch up to "await call_next(request)"
DispatchUpload ==
    \E r \in Uploaders :
        /\ frame[r].pc = "new"
        /\ CanDispatch(request[r].cookie)
        /\ user_sessions' = dispatched(request[r].cookie)
        /\ frame' = [frame EXCEPT ![r] = [pc |-> "dispatched",
                         session_id |-> session_id_of(request[r].cookie)]]
        /\ UNCHANGED <<request, response, merger>>

\* upload_pdf up to "await file.read()": the extension check
StartUpload ==
    \E r \in Uploaders :
        /\ frame[r].pc = "dispatched"
        /\ frame' = [frame EXCEPT ![r].pc =
               IF str_endswith(str_lower(request[r].filename), <<".", "p", "d", "f">>)
               THEN "reading" ELSE "raised"]
        /\ UNCHANGED <<user_sessions, request, response, merger>>

\* upload_pdf from the return of file.read() to its return or raise: the
\* previews, then files = session.get("files", {}); files[filename] =
\* new_file; session["files"] = files, with no await in between
StoreUpload ==
    \E r \in Uploaders :
        /\ frame[r].pc = "reading"
        /\ user_sessions' = [user_sessions EXCEPT ![frame[r].session_id] =
               upload_session(@, request[r].filename, request[r].content)]
        /\ frame' = [frame EXCEPT ![r].pc =
               IF Raised(upload_result(request[r].filename, request[r].content))
               THEN "raised" ELSE "stored"]
        /\ UNCHANGED <<request, response, merger>>

\* dispatch after call_next: the response, with the cookie when the request
\* had none
RespondUpload ==
    \E r \in Uploaders :
        /\ frame[r].pc \in {"raised", "stored"}
        /\ response' = [response EXCEPT ![r] =
               HttpResponse(upload_result(request[r].filename, request[r].content),
                            request[r].cookie, frame[r].session_id)]
        /\ frame' = [frame EXCEPT ![r].pc = "done"]
        /\ UNCHANGED <<user_sessions, request, merger>>

NextUploads == DispatchUpload \/ StartUpload \/ StoreUpload \/ RespondUpload

SpecUploads == InitUploads /\ [][NextUploads]_vars

(***************************************************************************)
(* Page-range strings, described independently of the parser.              *)
(***************************************************************************)
\* A token of a well-formed page-range string: a page p or a range a-b.
TokenNumbers == {1, 2, 12}
Tokens ==
    {[kind |-> "page", p |-> p] : p \in TokenNumbers}
    \cup {[kind |-> "range", a |-> a, b |-> b] : a \in TokenNumbers, b \in TokenNumbers}

RECURSIVE ListsUpTo(_, _)
ListsUpTo(S, n) ==
    IF n = 0 THEN {<<>>}
    ELSE LET shorter == ListsUpTo(S, n - 1)
         IN  shorter \cup {Append(l, x) : l \in shorter, x \in S}

ExampleTokenLists ==
    { << [kind |-> "range", a |-> 1, b |-> 3], [kind |-> "page", p |-> 5],
         [kind |-> "range", a |-> 7, b |-> 9] >>,
      << [kind |-> "page", p |-> 3], [kind |-> "range", a |-> 1, b |-> 2],
         [kind |-> "page", p |-> 2] >>,
      << [kind |-> "page", p |-> 1], [kind |-> "page", p |-> 10] >> }

TokenLists == (ListsUpTo(Tokens, MaxTokens) \ {<<>>}) \cup ExampleTokenLists

TokenText(t) ==
    IF t.kind = "page" THEN str(t.p) ELSE str(t.a) \o <<"-">> \o str(t.b)
RECURSIVE TokenListText(_)
TokenListText(ts) ==
    IF Len(ts) = 1 THEN TokenText(ts[1])
    ELSE TokenText(Head(ts)) \o <<",">> \o TokenListText(Tail(ts))

TokenIndices(t) ==
    IF t.kind = "page" THEN {t.p - 1} ELSE {i \in (t.a - 1)..(t.b - 1) : TRUE}
TokenListIndices(ts) == UNION {TokenIndices(ts[i]) : i \in 1..Len(ts)}

\* every enumerated token list with its text and the indices it denotes
WrittenTokenLists ==
    {[text |-> TokenListText(ts), indices |-> TokenListIndices(ts)] : ts \in TokenLists}

StrictlyAscending(xs) == \A i \in 1..(Len(xs) - 1) : xs[i] < xs[i + 1]

\* The comma-free segments of s, by position: s[a+1..b-1] for consecutive cuts
\* a < b, a cut being a comma, the position before s or the position after it.
Cuts(s) == {0, Len(s) + 1} \cup {k \in 1..Len(s) : s[k] = ","}
Segments(s) ==
    {SubSeq(s, a + 1, b - 1) :
        <<a, b>> \in {c \in Cuts(s) \X Cuts(s) :
                        c[1] < c[2] /\ \A k \in Cuts(s) : ~(c[1] < k /\ k < c[2])}}

\* t is decimal digits, possibly surrounded by whitespace
IsNumberText(t) ==
    \E i \in 1..Len(t) : \E j \in i..Len(t) :
        /\ \A k \in 1..(i - 1) : IsSpace(t[k])
        /\ \A k \in i..j : IsDigit(t[k])
        /\ \A k \in (j + 1)..Len(t) : IsSpace(t[k])
\* t is number-number
IsRangeText(t) ==
    \E k \in 1..Len(t) :
        /\ t[k] = "-"
        /\ IsNumberText(SubSeq(t, 1, k - 1))
        /\ IsNumberText(SubSeq(t, k + 1, Len(t)))
WellFormedToken(t) == IsNumberText(t) \/ IsRangeText(t)
HasBadToken(s) == \E t \in Segments(s) : ~WellFormedToken(t)

ParseCalled == request.op = "parse_page_ranges" /\ response # None
SplitCalled == request.op = "split_pdf" /\ response # None

\* C1: parse_page_ranges on the text of a list of tokens p / a-b returns the
\* strictly ascending list whose elements are exactly the union of {p-1} and
\* {a-1..b-1} over the tokens.
C1_ParseIsSortedUnion ==
    ParseCalled =>
        \A w \in WrittenTokenLists :
            w.text = request.pages =>
                /\ Returned(response)
                /\ StrictlyAscending(response.value)
                /\ SeqElems(response.value) = w.indices

C1_Witness ==
    /\ ParseCalled
    /\ request.pages = <<"3", ",", "1", "-", "2", ",", "2">>
    /\ \E w \in WrittenTokenLists : w.text = request.pages
    /\ response = Return(<<0, 1, 2>>)

\* C2: when some comma-separated token of the input is neither an integer nor
\* a start-end range, parse_page_ranges raises ValueError and split_pdf raises
\* the 400 HTTPException; it never returns with the token skipped.
C2_BadTokenIsInvalidFormat ==
    /\ ParseCalled /\ HasBadToken(request.pages) => response = ValueError
    /\ SplitCalled /\ HasBadToken(request.pages) =>
           response = HTTPException(400, InvalidPagesDetail)

C2_Witness ==
    /\ SplitCalled
    /\ request.pages = <<"1", ",", "2", "-", ",", "3">>
    /\ HasBadToken(request.pages)
    /\ request.file_content = PlainPdf(10)
    /\ response.status_code = 400

\* The parsed indices of a split_pdf call on a readable document.
SplitIndices == SeqElems(parse_page_ranges(request.pages).value)
SplitReadable ==
    /\ SplitCalled
    /\ Returned(parse_page_ranges(request.pages))
    /\ request.file_content.readable
SplitPageCount == Len(request.file_content.pages)
InRange(i) == 0 <= i /\ i < SplitPageCount

\* C3: when every parsed index is within [0, pageCount), split_pdf returns the
\* document made of the source pages at those indices, ascending, each once.
C3_SplitSelectsPages ==
    SplitReadable /\ (\A i \in SplitIndices : InRange(i)) =>
        /\ Returned(response)
        /\ response.value.readable
        /\ Len(response.value.pages) = Cardinality(SplitIndices)
        /\ \A k \in 1..Cardinality(SplitIndices) :
               \E i \in SplitIndices :
                   /\ Cardinality({j \in SplitIndices : j < i}) = k - 1
                   /\ response.value.pages[k] = request.file_content.pages[i + 1]

C3_Witness ==
    /\ SplitReadable
    /\ request.file_content = PlainPdf(10)
    /\ request.pages = <<"1", ",", "1", "0">>
    /\ response = Return(Pdf(<<Page(1, 0), Page(10, 0)>>))

\* C4: when some parsed index is outside [0, pageCount), split_pdf raises the
\* 400 HTTPException naming the one-based number of an offending page, and
\* returns no document, however many in-range pages came before it.
C4_SplitOutOfRange ==
    SplitReadable /\ (\E i \in SplitIndices : ~InRange(i)) =>
        /\ Raised(response)
        /\ \E i \in SplitIndices :
               /\ ~InRange(i)
               /\ response = HTTPException(400, PageMissingDetail(i + 1))

C4_Witness ==
    /\ SplitReadable
    /\ request.file_content = PlainPdf(2)
    /\ request.pages = <<"1", "-", "3", ",", "5", ",", "7", "-", "9">>
    /\ response = HTTPException(400, <<"Page ", "3", " does not exist in the document">>)

(***************************************************************************)
(* merge_pdfs                                                              *)
(***************************************************************************)
MergeCall == request.op = "merge_pdfs"
MergeDone == MergeCall /\ frame.pc = "done"
\* the requested file names that the file table does not hold
MergeAbsent ==
    {request.filenames[k] : k \in 1..Len(request.filenames)} \ DOMAIN request.session_files
\* name occurs in text, character for character
Occurs(name, text) ==
    \E k \in 1..(Len(text) - Len(name) + 1) : SubSeq(text, k, k + Len(name) - 1) = name

\* C5: when requested file names are absent from the file table, merge_pdfs
\* raises the 404 HTTPException whose message holds every absent name, and at
\* no point of the call has a document been appended or an output written.
C5_MissingFilesAllNamed ==
    MergeCall /\ MergeAbsent # {} =>
        /\ merger # None => merger.pages = <<>>
        /\ frame.pc # "merge_pdfs" => frame.output = None
        /\ MergeDone =>
              /\ Raised(response)
              /\ response.status_code = 404
              /\ \A f \in MergeAbsent : Occurs(f, response.detail)

C5_Witness ==
    /\ MergeDone
    /\ request.filenames = <<PdfName(<<"c">>), PdfName(<<"b">>)>>
    /\ DOMAIN request.session_files = {PdfName(<<"a">>)}
    /\ Cardinality(MergeAbsent) = 2
    /\ response.status_code = 404

\* the document stored under the k-th requested file name
MergeDoc(k) == request.session_files[request.filenames[k]].file_content
RECURSIVE MergeOffset(_)
MergeOffset(k) == IF k = 1 THEN 0 ELSE MergeOffset(k - 1) + Len(MergeDoc(k - 1).pages)
MergeAllReadable ==
    /\ MergeAbsent = {}
    /\ \A k \in 1..Len(request.filenames) : MergeDoc(k).readable

\* C7: when every requested file name is present (and holds a readable PDF),
\* merge_pdfs returns the document whose pages are the named documents' pages
\* in the order of the file name list, a name listed twice counting twice.
C7_MergeConcatenates ==
    MergeDone /\ MergeAllReadable =>
        /\ Returned(response)
        /\ response.value.readable
        /\ Len(response.value.pages) = MergeOffset(Len(request.filenames) + 1)
        /\ \A k \in 1..Len(request.filenames) :
               \A j \in 1..Len(MergeDoc(k).pages) :
                   response.value.pages[MergeOffset(k) + j] = MergeDoc(k).pages[j]

C7_Witness ==
    /\ MergeDone /\ MergeAllReadable
    /\ request.filenames = <<PdfName(<<"b">>), PdfName(<<"a">>)>>
    /\ MergeDoc(1) = Pdf(<<Page(1, 0), Page(2, 90)>>)
    /\ MergeDoc(2) = Pdf(<<Page(2, 90), Page(1, 0)>>)
    /\ response.value.pages = <<Page(1, 0), Page(2, 90), Page(2, 90), Page(1, 0)>>

\* C8: a merge_pdfs call closes its merger exactly once, and has done so when
\* the caller receives the result, on every exit path.
C8_MergerClosedOnce ==
    MergeCall /\ merger # None =>
        /\ merger.closed <= 1
        /\ (frame.pc = "done" \/ response # None) => merger.closed = 1
        /\ frame.pc \in {"check", "append", "finally"} => merger.closed = 0

C8_Witness ==
    /\ MergeDone
    /\ MergeAbsent = {}
    /\ Raised(response)
    /\ response.status_code = 500
    /\ merger.closed = 1

(***************************************************************************)
(* rotate_pages_in_pdf                                                     *)
(***************************************************************************)
RotateCalled == request.op = "rotate_pages_in_pdf" /\ response # None
\* the angle the rotation list maps page number n to: that of the last pair
\* for n, and no angle (0) when there is none
MappedAngle(n) ==
    LET at == {k \in 1..Len(request.rotations) : request.rotations[k][1] = n}
    IN  IF at = {} THEN 0
        ELSE request.rotations[CHOOSE k \in at : \A j \in at : j <= k][2]
RotationsValid ==
    \A k \in 1..Len(request.rotations) : request.rotations[k][2] \in Angles
Orientation(page) == page.rotate % 360

\* C9: rotate_pages_in_pdf returns the pages of the source in the same number
\* and order; the page at one-based position n has its orientation changed, by
\* the mapped angle added to its rotation, iff n is mapped to a non-zero angle;
\* other pages are unchanged; entries for pages beyond the last raise nothing.
C9_RotateOnlyMappedPages ==
    RotateCalled /\ request.file_content.readable /\ RotationsValid =>
        /\ Returned(response)
        /\ Len(response.value.pages) = Len(request.file_content.pages)
        /\ \A n \in 1..Len(request.file_content.pages) :
               LET before == request.file_content.pages[n]
                   after == response.value.pages[n]
               IN  /\ after.content = before.content
                   /\ after.rotate = before.rotate + MappedAngle(n)
                   /\ Orientation(after) # Orientation(before) <=> MappedAngle(n) # 0
                   /\ MappedAngle(n) = 0 => after = before

C9_Witness ==
    /\ RotateCalled
    /\ request.file_content = PlainPdf(3)
    /\ request.rotations = << <<2, 90>>, <<99, 90>> >>
    /\ response = Return(Pdf(<<Page(1, 0), Page(2, 90), Page(3, 0)>>))

(***************************************************************************)
(* convert_and_pack                                                        *)
(***************************************************************************)
ConvertCalled == request.op = "convert_and_pack" /\ response # None
\* prefix is the file name without its final extension: the name itself when
\* it has no dot, and otherwise what precedes the dot that no dot follows
IsStem(prefix, filename) ==
    \/ /\ \A k \in 1..Len(filename) : filename[k] # "."
       /\ prefix = filename
    \/ \E ext \in {SubSeq(filename, k + 1, Len(filename)) : k \in 1..Len(filename)} :
          /\ \A k \in 1..Len(ext) : ext[k] # "."
          /\ prefix \o <<".">> \o ext = filename

\* C10: convert_and_pack on a document of N pages and file name F returns an
\* archive of exactly N entries, the i-th named {prefix}_page_{i}.jpg for the
\* prefix of F; the entry names are pairwise distinct.
C10_ArchiveEntries ==
    ConvertCalled /\ request.file_content.readable =>
        /\ Returned(response)
        /\ Len(response.value) = Len(request.file_content.pages)
        /\ \E prefix \in {SubSeq(request.filename, 1, k) : k \in 0..Len(request.filename)} :
               /\ IsStem(prefix, request.filename)
               /\ \A i \in 1..Len(response.value) :
                      response.value[i].name =
                          prefix \o <<"_", "p", "a", "g", "e", "_">> \o str(i)
                                 \o <<".", "j", "p", "g">>
        /\ \A i \in 1..Len(response.value) : \A j \in 1..Len(response.value) :
               i # j => response.value[i].name # response.value[j].name

C10_Witness ==
    /\ ConvertCalled
    /\ request.filename = PdfName(<<"a", ".", "b">>)
    /\ request.file_content = PlainPdf(11)
    /\ Len(response.value) = 11
    /\ response.value[11].name =
           <<"a", ".", "b", "_", "p", "a", "g", "e", "_", "1", "1", ".", "j", "p", "g">>

(***************************************************************************)
(* The handlers' treatment of validation errors                            *)
(***************************************************************************)
Responded == response # None /\ response.kind = "response"
\* the files of the session the request ran under
RequestSessionId ==
    IF request.cookie = NoCookie THEN response.set_cookie ELSE request.cookie
RequestFiles == SessionFiles(user_sessions[RequestSessionId])
ListedNames == {request.filenames[k] : k \in 1..Len(request.filenames)}
IsValidationStatus(status_code) == status_code \in {400, 404}

SplitRequested == Responded /\ request.op = "/split-pdf"
SplitSource == RequestFiles[request.original_filename].file_content
SplitRequestIndices == SeqElems(parse_page_ranges(request.pages).value)
SplitRequestOutOfRange ==
    {i \in SplitRequestIndices : ~(0 <= i /\ i < Len(SplitSource.pages))}

\* C6: a validation error of a split, merge or convert request (malformed page
\* range, file name missing from the session, page out of range) reaches the
\* client as that error, with the offending file names or page number in its
\* message, and never as the generic internal failure.
C6_ValidationErrorsSurfaced ==
    /\ SplitRequested /\ request.original_filename \notin DOMAIN RequestFiles =>
           /\ IsValidationStatus(response.status_code)
           /\ response.detail # InternalErrorDetail
    /\ SplitRequested /\ request.original_filename \in DOMAIN RequestFiles
          /\ HasBadToken(request.pages) =>
           /\ IsValidationStatus(response.status_code)
           /\ response.detail = InvalidPagesDetail
    /\ SplitRequested /\ request.original_filename \in DOMAIN RequestFiles
          /\ ~HasBadToken(request.pages) /\ SplitRequestOutOfRange # {} =>
           /\ IsValidationStatus(response.status_code)
           /\ \E i \in SplitRequestOutOfRange : response.detail = PageMissingDetail(i + 1)
    /\ Responded /\ request.op = "merge_pdfs" /\ ListedNames \ DOMAIN RequestFiles # {} =>
           /\ IsValidationStatus(response.status_code)
           /\ \A f \in ListedNames \ DOMAIN RequestFiles : Occurs(f, response.detail)
    /\ Responded /\ request.op = "/convert-pdf-to-jpg"
          /\ ListedNames \ DOMAIN RequestFiles # {} =>
           /\ IsValidationStatus(response.status_code)
           /\ \E f \in ListedNames \ DOMAIN RequestFiles : Occurs(f, response.detail)

(***************************************************************************)
(* combine_archives                                                        *)
(***************************************************************************)
CombineCalled == request.op = "combine_archives" /\ response # None
\* the name entry e of the i-th archive is to have in the combined archive
NamespacedName(i, e) == <<"f", "i", "l", "e", "_">> \o str(i) \o <<"/">> \o e
RECURSIVE EntriesBefore(_)
EntriesBefore(i) ==
    IF i = 1 THEN 0 ELSE EntriesBefore(i - 1) + Len(request.individual_archives[i - 1])

\* C11: combine_archives returns an archive that holds, for every i and every
\* entry e of the i-th input, exactly one entry named file_{i}/e with e's
\* bytes, and no other entry; entries of different inputs never share a name,
\* so the entry count is the sum of the inputs' entry counts.
C11_CombineNamespaces ==
    CombineCalled =>
        LET ins == request.individual_archives
            out == response.value
        IN  /\ Returned(response)
            /\ Len(out) = EntriesBefore(Len(ins) + 1)
            /\ \A i \in 1..Len(ins) : \A k \in 1..Len(ins[i]) :
                   /\ Cardinality({j \in 1..Len(out) :
                          out[j].name = NamespacedName(i, ins[i][k].name)}) = 1
                   /\ \E j \in 1..Len(out) :
                          out[j] = [name |-> NamespacedName(i, ins[i][k].name),
                                    data |-> ins[i][k].data]
            /\ \A j \in 1..Len(out) :
                   \E i \in 1..Len(ins) : \E k \in 1..Len(ins[i]) :
                       out[j].name = NamespacedName(i, ins[i][k].name)
            /\ \A j \in 1..Len(out) : \A l \in 1..Len(out) :
                   j # l => out[j].name # out[l].name

C11_Witness ==
    /\ CombineCalled
    /\ Len(request.individual_archives) = 2
    /\ Len(request.individual_archives[1]) = 1
    /\ Len(request.individual_archives[2]) = 1
    /\ request.individual_archives[1][1].name = request.individual_archives[2][1].name
    /\ request.individual_archives[1][1].data # request.individual_archives[2][1].data
    /\ response.value[1].name =
           <<"f", "i", "l", "e", "_", "1", "/",
             "d", "o", "c", "_", "p", "a", "g", "e", "_", "1", ".", "j", "p", "g">>
    /\ response.value[2].name =
           <<"f", "i", "l", "e", "_", "2", "/",
             "d", "o", "c", "_", "p", "a", "g", "e", "_", "1", ".", "j", "p", "g">>

\* ---- C12 ----
StoredEntries ==
    { <<sid, f>> \in (DOMAIN user_sessions) \X (StoredNames \cup UploadNames) :
        f \in DOMAIN SessionFiles(user_sessions[sid]) }
EntryKept(sid, f) ==
    /\ sid \in DOMAIN user_sessions'
    /\ f \in DOMAIN SessionFiles(user_sessions'[sid])
    /\ SessionFiles(user_sessions'[sid])[f] = SessionFiles(user_sessions[sid])[f]
EntryReplacedByUpload(sid, f) ==
    /\ request'.op = "/upload" /\ request'.cookie = sid /\ request'.filename = f
    /\ response'.status_code = 200
    /\ sid \in DOMAIN user_sessions'
    /\ f \in DOMAIN SessionFiles(user_sessions'[sid])
    /\ SessionFiles(user_sessions'[sid])[f] =
           [filename |-> f, file_content |-> request'.content,
            file_previews |-> convert_pdf_to_images(request'.content).value]

\* C12 (as stated): no step of any request changes an entry that an upload
\* has stored in a session's file table.
C12_EntriesNeverChange ==
    [][\A e \in StoredEntries : EntryKept(e[1], e[2])]_vars

\* C12 (amended): an entry stored by an upload stays in its session's file
\* table with its filename, bytes and previews unchanged through every step of
\* every request, except that an accepted upload of the same filename in the
\* same session replaces it by that upload's filename, bytes and previews.
C12_EntriesChangeOnlyByReupload ==
    [][\A e \in StoredEntries :
          EntryKept(e[1], e[2]) \/ EntryReplacedByUpload(e[1], e[2])]_vars

\* a session holding both a.pdf and b.PDF, the first still with the two-page
\* document it was uploaded with, has just answered a rotation of a.pdf
C12_Witness ==
    /\ Responded /\ request.op = "/rotate-pdf" /\ response.status_code = 200
    /\ request.original_filename = PdfName(<<"a">>)
    /\ DOMAIN RequestFiles = {PdfName(<<"a">>), <<"b", ".", "P", "D", "F">>}
    /\ RequestFiles[PdfName(<<"a">>)].file_content = Pdf(<<Page(1, 0), Page(2, 90)>>)
    /\ response.body # Pdf(<<Page(1, 0), Page(2, 90)>>)

\* ---- C13 ----
\* the requests whose table write has happened, per session
Writers(sid) ==
    { r \in Uploaders :
        /\ \/ frame[r].pc = "stored"
           \/ frame[r].pc = "done" /\ response[r].status_code = 200
        /\ frame[r].session_id = sid }
WrittenEntry(r) ==
    [filename |-> request[r].filename, file_content |-> request[r].content,
     file_previews |-> convert_pdf_to_images(request[r].content).value]
Orders(S) ==
    { order \in [1..Cardinality(S) -> S] :
        \A j, k \in 1..Cardinality(S) : j # k => order[j] # order[k] }
RECURSIVE TableAfter(_, _)
TableAfter(order, k) ==
    IF k = 0 THEN <<>>
    ELSE LET before == TableAfter(order, k - 1)
             r == order[k]
         IN  [f \in DOMAIN before \cup {request[r].filename} |->
                 IF f = request[r].filename THEN WrittenEntry(r) ELSE before[f]]
SerialTable(sid) ==
    \E order \in Orders(Writers(sid)) :
        TableAfter(order, Cardinality(Writers(sid))) = SessionFiles(user_sessions[sid])
WriteStepOf(r) == frame[r].pc = "reading" /\ frame'[r].pc = "stored"
WriteIsWhole(r) ==
    LET sid == frame[r].session_id
        before == SessionFiles(user_sessions[sid])
        after == SessionFiles(user_sessions'[sid])
    IN  /\ DOMAIN after = DOMAIN before \cup {request[r].filename}
        /\ after[request[r].filename] = WrittenEntry(r)
        /\ \A f \in DOMAIN before \ {request[r].filename} : after[f] = before[f]
        /\ \A other \in DOMAIN user_sessions \ {sid} :
               user_sessions'[other] = user_sessions[other]

\* C13: in every interleaving of concurrent uploads, each session's file
\* table is at all times the table that the table writes done so far give
\* when applied one at a time in some order, starting from the empty table;
\* and each table write puts the writer's complete entry (filename, bytes,
\* previews) under its filename and leaves every other entry as it was.
C13_UploadsSerialize ==
    /\ [](\A sid \in DOMAIN user_sessions : SerialTable(sid))
    /\ [][\A r \in Uploaders : WriteStepOf(r) => WriteIsWhole(r)]_vars

\* request 1 is suspended in file.read() while request 2, an upload of the
\* same filename with other bytes to the same session, has already written
C13_Witness ==
    /\ frame[1].pc = "reading" /\ frame[2].pc = "stored"
    /\ frame[1].session_id = frame[2].session_id
    /\ request[1].filename = request[2].filename
    /\ request[1].content = PlainPdf(1)
    /\ request[2].content = Pdf(<<Page(1, 0), Page(2, 90)>>)
    /\ SessionFiles(user_sessions[frame[2].session_id])[request[2].filename]
           = WrittenEntry(2)

\* ---- C14 ----
\* C14: every key of the session store is an identifier that uuid.uuid4()
\* produced in dispatch; no request creates an entry under another identifier.
C14_KeysServerIssued == \A session_id \in DOMAIN user_sessions : session_id \in ServerIds

\* ---- C15 ----
ConvertRequested == Responded /\ request.op = "/convert-pdf-to-jpg"
FirstPositions(L) == {k \in 1..Len(L) : \A j \in 1..(k - 1) : L[j] # L[k]}
\* the i-th distinct element of L, in order of first occurrence
NthDistinct(L, i) ==
    L[CHOOSE k \in FirstPositions(L) :
          Cardinality({j \in FirstPositions(L) : j < k}) = i - 1]
AbsentPositions(L) == {k \in 1..Len(L) : L[k] \notin DOMAIN RequestFiles}
FirstAbsent(L) == L[CHOOSE k \in AbsentPositions(L) : \A j \in AbsentPositions(L) : k <= j]
StartsWith(text, start) ==
    Len(text) >= Len(start) /\ SubSeq(text, 1, Len(start)) = start
ArchivePrefix(i) == <<"f", "i", "l", "e", "_">> \o str(i) \o <<"/">>
\* the conversion of the i-th distinct file, under file_{i}/
ConvertedOnce(L, i) ==
    LET filename == NthDistinct(L, i)
        archive == convert_and_pack(filename, RequestFiles[filename].file_content,
                                    request.dpi).value
    IN  [j \in 1..Len(archive) |->
            [name |-> NamespacedName(i, archive[j].name), data |-> archive[j].data]]
RECURSIVE ConvertedUpTo(_, _)
ConvertedUpTo(L, i) ==
    IF i = 0 THEN <<>> ELSE ConvertedUpTo(L, i - 1) \o ConvertedOnce(L, i)
ConvertAllPresent ==
    ConvertRequested /\ AbsentPositions(request.filenames) = {} =>
        LET L == request.filenames
            k == Cardinality(FirstPositions(L))
            out == response.body
        IN  /\ response.status_code = 200
            /\ out = ConvertedUpTo(L, k)
            /\ \A j \in 1..Len(out) : \E i \in 1..k : StartsWith(out[j].name, ArchivePrefix(i))
            /\ \A i \in 1..k : \E j \in 1..Len(out) : StartsWith(out[j].name, ArchivePrefix(i))
ConvertSomeAbsent ==
    ConvertRequested /\ AbsentPositions(request.filenames) # {} =>
        LET L == request.filenames
        IN  /\ response.status_code # 200
            /\ response.body = None
            /\ Occurs(FirstAbsent(L), response.detail)
            /\ \A k \in AbsentPositions(L) :
                   L[k] # FirstAbsent(L) => ~Occurs(L[k], response.detail)

\* C15: a convert request whose listed files are all in the session answers
\* with the archive that holds, for the i-th distinct listed name in order of
\* first occurrence, that file's conversion under file_{i}/, so its prefixes
\* are exactly file_1/ .. file_k/ for k distinct names; a request listing an
\* absent file fails, its error names the first absent file and no other, and
\* it carries no archive.
C15_ConvertDistinctOnce == ConvertAllPresent /\ ConvertSomeAbsent

====
